---------------------------- MODULE Spec2Model ----------------------------
(***************************************************************************)
(* Model of sgromme/sp_constraints.                                        *)
(*                                                                         *)
(* Spec          the single-facility SupplyPlanningModel                   *)
(*               (src/source/supplyplanningmodel.py) driven as             *)
(*               src/source/test.py drives it: catalog calls, then the     *)
(*               constraint builders, solve and get_results, each call     *)
(*               optional, an exception ending the run.                    *)
(* SpecScenario  AdvancedSupplyPlanningModel.generate_scenario_comparison  *)
(*               and get_results (src/advancedsupplyplanningmodel.py).     *)
(*                                                                         *)
(* A linear constraint is a record: terms (variable, coefficient), the     *)
(* constant on the left, the relation and the right-hand side.  The        *)
(* external solver is a nondeterministic choice of a status and, when the  *)
(* status is Optimal, of any valuation of the declared variables that      *)
(* satisfies every emitted constraint.                                     *)
(***************************************************************************)
EXTENDS Integers, Sequences, FiniteSets, TLC

(***************************************************************************)
(* Bounds of the model.                                                    *)
(***************************************************************************)
\* periods are drawn from 0..MaxPeriod
MaxPeriod == 2
\* a periods list has at most MaxLen elements
MaxLen == 2
\* add_products / add_periods / setup_variables calls in one run
MaxCatalogCalls == 3
\* the solver is run on models of at most MaxSolveKeys (product, period) keys
MaxSolveKeys == 2
\* value ranges of the solver's valuations
MaxQty == 3
MaxInv == 1
MaxBack == 1
MaxOT == 1
\* scenarios in one batch
MaxScenarios == 2
\* the largest flow on a lane in an optimal answer
MaxFlow == 1
\* evaluate calls in one run of the dashboard
MaxEvents == 2

(***************************************************************************)
(* Values shared by both models.                                           *)
(***************************************************************************)
\* Python None / a number x: <<>> / <<x>>
None == <<>>
Some(x) == <<x>>
IsNone(o) == o = <<>>

RECURSIVE SeqToSet(_)
SeqToSet(s) == IF s = <<>> THEN {} ELSE {Head(s)} \cup SeqToSet(Tail(s))

RECURSIVE Flatten(_)
Flatten(ss) == IF ss = <<>> THEN <<>> ELSE Head(ss) \o Flatten(Tail(ss))

\* [f(x) for x in s]
SeqMap(f(_), s) == [i \in 1..Len(s) |-> f(s[i])]

\* "for a in s1 for b in s2": the pairs in loop order
LoopPairs(s1, s2) ==
    Flatten([i \in 1..Len(s1) |-> [j \in 1..Len(s2) |-> <<s1[i], s2[j]>>]])

\* an exception: its Python type, the container that was read, the key
NoErr == [kind |-> "none", what |-> "", p |-> "", t |-> -1]
Raise(kind, what, p, t) == [kind |-> kind, what |-> what, p |-> p, t |-> t]

\* the first failure of a left-to-right evaluation: checks is a sequence of
\* <<holds, exception>>
RECURSIVE FirstError(_)
FirstError(checks) ==
    IF checks = <<>> THEN NoErr
    ELSE IF Head(checks)[1] THEN FirstError(Tail(checks))
    ELSE Head(checks)[2]

(***************************************************************************)
(* State.                                                                  *)
(***************************************************************************)
VARIABLES
    \* SupplyPlanningModel (Spec)
    products,           \* self.products
    periods,            \* self.periods
    variables,          \* self.variables: family name -> declared keys
    initial_inventory,  \* self.initial_inventory: [set, map]
    constraints,        \* self.model's constraints, in emission order
    objective,          \* self.model's objective terms, <<>> before set_objective
    big_M,              \* the big_M of the last add_minimum_production_constraints
    status,             \* what solve() returned
    valuation,          \* the solver's values: None or Some(valuation)
    results,            \* the rows get_results returned
    err,                \* the exception that ended the run, NoErr if none
    stage,              \* position in the driver script
    catalogCalls,       \* catalog calls made so far
    setupArg,           \* the argument of the last setup_variables call, if any
    demandArg,          \* the argument of the last add_demand_constraints call, if any
    \* AdvancedSupplyPlanningModel (SpecScenario)
    scenarios,          \* the batch: sequence of [name, cfg]
    idx,                \* loop position of generate_scenario_comparison
    pcA,                \* step within the loop body
    adv,                \* the model object's attributes
    solve_status,       \* local solve_status
    extracted,          \* local results
    comparison_results, \* local comparison_results: scenario name -> record
    raised,             \* the exception that left generate_scenario_comparison
    solverLog,          \* what the solver returned, call by call
    \* supply_constraints_dashboard (SpecDashboard)
    rule_status,        \* Constraint.status of each constraint of the list
    last_returned,      \* what evaluate last returned for each constraint, if it ran
    last_call,          \* the constraint and context of the last evaluate call, if any
    event_log,          \* event_log: [constraint, status, date]
    \* constraints.py (SpecConstraints)
    made,               \* the constraint object constructed, with its arguments
    evaluated           \* the last evaluate call on it: [level, result]

spmVars == <<products, periods, variables, initial_inventory, constraints,
             objective, big_M, status, valuation, results, err, stage,
             catalogCalls, setupArg, demandArg>>
advVars == <<scenarios, idx, pcA, adv, solve_status, extracted, comparison_results,
             raised, solverLog>>
ruleVars == <<rule_status, last_returned, last_call, event_log, made, evaluated>>
vars == <<products, periods, variables, initial_inventory, constraints,
          objective, big_M, status, valuation, results, err, stage,
          catalogCalls, setupArg, demandArg, scenarios, idx, pcA, adv, solve_status,
          extracted, comparison_results, raised, solverLog,
          rule_status, last_returned, last_call, event_log, made, evaluated>>

(***************************************************************************)
(* supply_constraints_dashboard: the constraints, the contexts, evaluate.  *)
(* A date is a day number: day d of July 2025, 0 the day before the month  *)
(* and 32 the day after it.                                                *)
(***************************************************************************)
\* the constraints list; logic names the lambda
SampleConstraints ==
    << [name |-> "Capacity_Limit_DC1", type |-> "Capacity",
        start_date |-> 1, end_date |-> 31, logic |-> "demand <= capacity"],
       [name |-> "Inventory_Min_Safety_Stock", type |-> "Inventory",
        start_date |-> 1, end_date |-> 15, logic |-> "inventory >= safety_stock"] >>

\* contexts: the dates of the script, and the days at and next to the window ends
ContextDates == {0, 1, 5, 10, 15, 16, 20, 31, 32}
Contexts ==
    [date : ContextDates, demand : {950, 1050}, capacity : {1000},
     inventory : {250, 350}, safety_stock : {300}]

\* self.logic(context)
Logic(rule, context) ==
    IF rule.logic = "demand <= capacity" THEN context.demand <= context.capacity
    ELSE context.inventory >= context.safety_stock

\* a window whose last day is left out
InWindow_EndExclusive(rule, context) ==
    rule.start_date <= context.date /\ context.date < rule.end_date

\* self.start_date <= context["date"] <= self.end_date
InWindow(rule, context) ==
    rule.start_date <= context.date /\ context.date <= rule.end_date

\* the status evaluate assigns and returns
Evaluated(rule, context) ==
    IF InWindow(rule, context)
    THEN IF ~Logic(rule, context) THEN "violated" ELSE "satisfied"
    ELSE "inactive"

\* Constraint.__init__ of every constraint of the list; event_log = []
DashInit ==
    /\ rule_status = [i \in 1..Len(SampleConstraints) |-> "unknown"]
    /\ last_returned = [i \in 1..Len(SampleConstraints) |-> None]
    /\ last_call = None
    /\ event_log = <<>>

\* result = constraint.evaluate(context); event_log.append({...})
evaluate(i, context) ==
    /\ Len(event_log) < MaxEvents
    /\ LET result == Evaluated(SampleConstraints[i], context)
       IN  /\ rule_status' = [rule_status EXCEPT ![i] = result]
           /\ last_returned' = [last_returned EXCEPT ![i] = Some(result)]
           /\ event_log' = Append(event_log,
                                  [constraint |-> SampleConstraints[i].name,
                                   status |-> result, date |-> context.date])
    /\ last_call' = Some([i |-> i, context |-> context])
    /\ UNCHANGED <<made, evaluated>>

(***************************************************************************)
(* constraints.py: Constraint, InventoryConstraint, CapacityConstraint.    *)
(* An attribute value is None or a dict, a dict being its set of items.    *)
(***************************************************************************)
NoneValue == [kind |-> "none", items |-> {}]
Dict(items) == [kind |-> "dict", items |-> items]

\* the parameters mappings passed to the constructors
ParameterArgs ==
    {Dict({<<"max_inventory", 200>>}), Dict({<<"max_capacity", 1000>>}), Dict({})}

\* Constraint.__init__(name, description, scope, constraint_type, start_date,
\* end_date=None, parameters=None): the arguments in positional order
ConstraintInit(name, description, scope, constraint_type, start_date, end_date, parameters) ==
    [name |-> name, description |-> description, scope |-> scope,
     constraint_type |-> constraint_type, start_date |-> start_date,
     end_date |-> end_date,
     parameters |-> IF parameters = NoneValue THEN Dict({}) ELSE parameters]

\* InventoryConstraint.__init__: super().__init__(name, description, scope,
\* 'inventory', parameters) passes five positional arguments, end_date and
\* parameters take their defaults
InventoryConstraintInit(name, description, scope, parameters, min_inventory) ==
    [base |-> ConstraintInit(name, description, scope, "inventory", parameters,
                             NoneValue, NoneValue),
     min_inventory |-> min_inventory]

\* CapacityConstraint.__init__
CapacityConstraintInit(name, description, scope, parameters, max_capacity) ==
    [base |-> ConstraintInit(name, description, scope, "capacity", parameters,
                             NoneValue, NoneValue),
     max_capacity |-> max_capacity]

\* InventoryConstraint.evaluate
InventoryEvaluate(obj, inventory_level) == inventory_level >= obj.min_inventory

\* CapacityConstraint.evaluate
CapacityEvaluate(obj, production_level) == production_level <= obj.max_capacity

\* no object yet
ClassInit == made = None /\ evaluated = None

ConstructorArgs ==
    [name : {"Max Inventory Constraint", "Line Capacity"},
     scope : {"product", "facility"},
     parameters : ParameterArgs,
     threshold : {0, 500}]

\* t = InventoryConstraint(name=..., description=..., scope=..., parameters=...,
\* min_inventory=...)
NewInventoryConstraint(a) ==
    /\ made' = Some([cls |-> "InventoryConstraint", args |-> a,
                     obj |-> InventoryConstraintInit(a.name, "", a.scope,
                                                     a.parameters, a.threshold)])
    /\ evaluated' = None
    /\ UNCHANGED <<rule_status, last_returned, last_call, event_log>>

NewCapacityConstraint(a) ==
    /\ made' = Some([cls |-> "CapacityConstraint", args |-> a,
                     obj |-> CapacityConstraintInit(a.name, "", a.scope,
                                                    a.parameters, a.threshold)])
    /\ evaluated' = None
    /\ UNCHANGED <<rule_status, last_returned, last_call, event_log>>

\* t.evaluate(level)
EvaluateLevel(level) ==
    /\ made # None
    /\ evaluated' =
          Some([level |-> level,
                result |-> IF made[1].cls = "InventoryConstraint"
                           THEN InventoryEvaluate(made[1].obj, level)
                           ELSE CapacityEvaluate(made[1].obj, level)])
    /\ UNCHANGED <<made, rule_status, last_returned, last_call, event_log>>

\* the part of the state the two planning models never touch
RuleInit == DashInit /\ ClassInit

(***************************************************************************)
(* Inputs of the single-facility model.                                    *)
(***************************************************************************)
ProductNames == {"A", "B"}
ProductLists == {<<"A">>, <<"A", "B">>}

\* ascending lists of periods, contiguous or not
PeriodLists ==
    {s \in UNION {[1..n -> 0..MaxPeriod] : n \in 1..MaxLen} :
        \A i \in 1..(Len(s) - 1) : s[i] < s[i + 1]}

Contiguous(s) == \A i \in 1..(Len(s) - 1) : s[i + 1] = s[i] + 1

\* initial_inventory arguments: None, a full mapping, a mapping without "B"
InitialInventoryArgs ==
    {None, Some([p \in ProductNames |-> IF p = "A" THEN 1 ELSE 2]),
     Some([p \in {"A"} |-> 1])}

\* demand tables: full, without product "B", without the periods after 0
DemandArgs ==
    {[p \in ProductNames |-> [t \in 0..MaxPeriod |-> IF p = "A" THEN 2 ELSE 1]],
     [p \in {"A"} |-> [t \in 0..MaxPeriod |-> 1]],
     [p \in ProductNames |-> [t \in {0} |-> 2]]}

\* add_capacity_constraints arguments; production_time has one entry per
\* product and the entry 'setup'
CapacityArgs ==
    {[regular_capacity |-> 3, max_overtime |-> 1,
      production_time |-> [k \in ProductNames \cup {"setup"} |-> 1]]}

\* min_production tables: both products, one with a larger lot, one without "B"
MinProductionArgs ==
    {[p \in ProductNames |-> 1], [p \in ProductNames |-> IF p = "A" THEN 2 ELSE 1],
     [p \in {"A"} |-> 1]}

MaxInventoryArgs == {[p \in ProductNames |-> 1]}


\* cost tables of set_objective: total over the products
CostArgs ==
    {[production_cost |-> [p \in ProductNames |-> 1],
      setup_cost |-> [p \in ProductNames |-> 2],
      inventory_cost |-> [p \in ProductNames |-> 1],
      backlog_cost |-> [p \in ProductNames |-> 3],
      overtime_cost |-> 2]}

(***************************************************************************)
(* SupplyPlanningModel: variables and linear expressions.                  *)
(***************************************************************************)
PTFamilies == {"production", "setup", "inventory", "backlog"}
Families == PTFamilies \cup {"overtime"}

\* a term coef * self.variables[fam][p,t]  (overtime: p = "")
Term(fam, p, t, c) == [fam |-> fam, p |-> p, t |-> t, c |-> c]
VarKey(term) == IF term.fam = "overtime" THEN <<term.t>> ELSE <<term.p, term.t>>

Constraint(fam, p, t, terms, const, rel, rhs) ==
    [fam |-> fam, p |-> p, t |-> t, terms |-> terms, const |-> const,
     rel |-> rel, rhs |-> rhs]

\* one step of a builder loop: the exception it raises, or what it emits
Emit(cons) == [err |-> NoErr, cons |-> cons]
Fail(e) == [err |-> e, cons |-> <<>>]

\* the loop: the steps before the first raising one take effect
RECURSIVE RunSteps(_)
RunSteps(rs) ==
    IF rs = <<>> THEN Emit(<<>>)
    ELSE IF Head(rs).err # NoErr THEN Fail(Head(rs).err)
    ELSE LET rest == RunSteps(Tail(rs))
         IN  [err |-> rest.err, cons |-> Head(rs).cons \o rest.cons]

\* a lookup that answers for any key of a known family, as a defaultdict would
VarChecks_AnyKey(fam, p, t) ==
    << <<fam \in DOMAIN variables, Raise("KeyError", "variables", fam, -1)>> >>

\* self.variables[fam][p,t]: KeyError on an unknown family or key
VarChecks(fam, p, t) ==
    << <<fam \in DOMAIN variables, Raise("KeyError", "variables", fam, -1)>>,
       <<IF fam \in DOMAIN variables THEN <<p, t>> \in variables[fam] ELSE TRUE,
         Raise("KeyError", fam, p, t)>> >>

\* self.variables['overtime'][t]
OvertimeChecks(t) ==
    << <<"overtime" \in DOMAIN variables, Raise("KeyError", "variables", "overtime", -1)>>,
       <<IF "overtime" \in DOMAIN variables THEN <<t>> \in variables["overtime"] ELSE TRUE,
         Raise("KeyError", "overtime", "", t)>> >>

\* d[p]
KeyChecks(what, d, p) == << <<p \in DOMAIN d, Raise("KeyError", what, p, -1)>> >>


(***************************************************************************)
(* SupplyPlanningModel.__init__                                            *)
(***************************************************************************)
SpmInit ==
    /\ products = <<>>
    /\ periods = <<>>
    /\ variables = <<>>
    /\ initial_inventory = [set |-> FALSE, map |-> <<>>]
    /\ constraints = <<>>
    /\ objective = <<>>
    /\ big_M = None
    /\ status = "unsolved"
    /\ valuation = None
    /\ results = <<>>
    /\ err = NoErr
    /\ stage = 0
    /\ catalogCalls = 0
    /\ setupArg = None
    /\ demandArg = None

\* the driver makes its catalog calls, in any order, before it builds
CanCatalog == err = NoErr /\ stage = 0 /\ catalogCalls < MaxCatalogCalls

\* the driver makes the builder calls and solve in the order of the script
CanCall(n) == err = NoErr /\ stage = n

\* get_results may be called at any point of the script
CanGetResults == err = NoErr /\ stage <= 6

(***************************************************************************)
(* add_products, add_periods, setup_variables                              *)
(***************************************************************************)
add_products(ps) ==
    /\ CanCatalog
    /\ products' = ps
    /\ catalogCalls' = catalogCalls + 1
    /\ UNCHANGED <<periods, variables, initial_inventory, constraints, objective,
                   big_M, status, valuation, results, err, stage,
                   setupArg, demandArg>>

add_periods(ts) ==
    /\ CanCatalog
    /\ periods' = ts
    /\ catalogCalls' = catalogCalls + 1
    /\ UNCHANGED <<products, variables, initial_inventory, constraints, objective,
                   big_M, status, valuation, results, err, stage,
                   setupArg, demandArg>>

\* a default that holds no product: {}
DefaultInitialInventory_Empty == <<>>

\* the default of setup_variables: {p: 0 for p in self.products}
DefaultInitialInventory == [p \in SeqToSet(products) |-> 0]

\* the keys LpVariable.dicts declares for one family
DeclaredKeys(fam) ==
    IF fam = "overtime" THEN {<<t>> : t \in SeqToSet(periods)}
    ELSE SeqToSet(products) \X SeqToSet(periods)

setup_variables(arg) ==
    /\ CanCatalog
    /\ variables' = [fam \in Families |-> DeclaredKeys(fam)]
    /\ initial_inventory' =
          [set |-> TRUE,
           map |-> IF IsNone(arg) THEN DefaultInitialInventory ELSE arg[1]]
    /\ catalogCalls' = catalogCalls + 1
    /\ setupArg' = Some(arg)
    /\ UNCHANGED <<products, periods, constraints, objective, big_M, status,
                   valuation, results, err, stage, demandArg>>

(***************************************************************************)
(* add_demand_constraints                                                  *)
(***************************************************************************)
\* the period whose inventory and backlog a later period chains from
PrevPeriod(t) == t - 1

\* the branch test of the loop body
IsFirstPeriod(t) == t = periods[1]

\* a first-period balance that leaves the opening inventory out
OpeningInventory_Zero(p) == 0

\* self.initial_inventory[p]
OpeningInventory(p) == initial_inventory.map[p]

\* the lookups of one loop body, in evaluation order
DemandChecks(p, t, demand) ==
    (IF IsFirstPeriod(t)
     THEN << <<initial_inventory.set,
               Raise("AttributeError", "initial_inventory", "", -1)>>,
             <<p \in DOMAIN initial_inventory.map,
               Raise("KeyError", "initial_inventory", p, -1)>> >>
          \o VarChecks("production", p, t)
          \o VarChecks("inventory", p, t)
          \o VarChecks("backlog", p, t)
     ELSE VarChecks("inventory", p, PrevPeriod(t))
          \o VarChecks("production", p, t)
          \o VarChecks("inventory", p, t)
          \o VarChecks("backlog", p, t)
          \o VarChecks("backlog", p, PrevPeriod(t)))
    \o << <<p \in DOMAIN demand, Raise("KeyError", "demand", p, -1)>>,
          <<IF p \in DOMAIN demand THEN t \in DOMAIN demand[p] ELSE TRUE,
            Raise("KeyError", "demand", "", t)>> >>

\* the equality of one (product, period)
DemandConstraint(p, t, demand) ==
    IF IsFirstPeriod(t)
    THEN Constraint("demand", p, t,
                    {Term("production", p, t, 1), Term("inventory", p, t, -1),
                     Term("backlog", p, t, 1)},
                    OpeningInventory(p), "==", demand[p][t])
    ELSE Constraint("demand", p, t,
                    {Term("inventory", p, PrevPeriod(t), 1),
                     Term("production", p, t, 1), Term("inventory", p, t, -1),
                     Term("backlog", p, t, 1),
                     Term("backlog", p, PrevPeriod(t), -1)},
                    0, "==", demand[p][t])

DemandStep(p, t, demand) ==
    LET e == FirstError(DemandChecks(p, t, demand))
    IN  IF e # NoErr THEN Fail(e) ELSE Emit(<<DemandConstraint(p, t, demand)>>)

DemandRun(demand) ==
    LET pairs == LoopPairs(products, periods)
    IN  RunSteps([i \in 1..Len(pairs) |-> DemandStep(pairs[i][1], pairs[i][2], demand)])

add_demand_constraints(demand) ==
    /\ CanCall(0)
    /\ LET r == DemandRun(demand)
       IN  /\ constraints' = constraints \o r.cons
           /\ err' = r.err
    /\ stage' = 1
    /\ demandArg' = Some(demand)
    /\ UNCHANGED <<products, periods, variables, initial_inventory, objective,
                   big_M, status, valuation, results, catalogCalls, setupArg>>


(***************************************************************************)
(* add_capacity_constraints                                                *)
(***************************************************************************)
CapacityChecks(t, a) ==
    Flatten([i \in 1..Len(products) |->
                KeyChecks("production_time", a.production_time, products[i])
                \o VarChecks("production", products[i], t)
                \o VarChecks("setup", products[i], t)
                \o KeyChecks("production_time", a.production_time, "setup")])
    \o OvertimeChecks(t)

CapacityConstraint(t, a) ==
    Constraint("capacity", "", t,
               {Term("production", p, t, a.production_time[p]) : p \in SeqToSet(products)}
               \cup {Term("setup", p, t, a.production_time["setup"]) : p \in SeqToSet(products)}
               \cup {Term("overtime", "", t, -1)},
               0, "<=", a.regular_capacity)

OvertimeConstraint(t, a) ==
    Constraint("overtime", "", t, {Term("overtime", "", t, 1)}, 0, "<=", a.max_overtime)

CapacityStep(t, a) ==
    LET e == FirstError(CapacityChecks(t, a))
    IN  IF e # NoErr THEN Fail(e)
        ELSE Emit(<<CapacityConstraint(t, a), OvertimeConstraint(t, a)>>)

add_capacity_constraints(a) ==
    /\ CanCall(1)
    /\ LET r == RunSteps([i \in 1..Len(periods) |-> CapacityStep(periods[i], a)])
       IN  /\ constraints' = constraints \o r.cons
           /\ err' = r.err
    /\ stage' = 2
    /\ UNCHANGED <<products, periods, variables, initial_inventory, objective,
                   big_M, status, valuation, results, catalogCalls,
                   setupArg, demandArg>>

(***************************************************************************)
(* add_minimum_production_constraints                                      *)
(***************************************************************************)
RECURSIVE SumValues(_)
SumValues(f) ==
    IF DOMAIN f = {} THEN 0
    ELSE LET k == CHOOSE x \in DOMAIN f : TRUE
         IN  f[k] + SumValues([x \in DOMAIN f \ {k} |-> f[x]])

\* big_M = sum(min_production.values()) * len(self.periods) * 2
BigM(min_production) == SumValues(min_production) * Len(periods) * 2

MinProductionChecks(p, t, min_production) ==
    VarChecks("production", p, t)
    \o KeyChecks("min_production", min_production, p)
    \o VarChecks("setup", p, t)

\* production >= min_production[p] * setup
LotLower(p, t, min_production) ==
    Constraint("lot_lower", p, t,
               {Term("production", p, t, 1), Term("setup", p, t, -min_production[p])},
               0, ">=", 0)

\* production <= big_M * setup
LotUpper(p, t, bigM) ==
    Constraint("lot_upper", p, t,
               {Term("production", p, t, 1), Term("setup", p, t, -bigM)},
               0, "<=", 0)

MinProductionStep(p, t, min_production) ==
    LET e == FirstError(MinProductionChecks(p, t, min_production))
    IN  IF e # NoErr THEN Fail(e)
        ELSE Emit(<<LotLower(p, t, min_production),
                    LotUpper(p, t, BigM(min_production))>>)

add_minimum_production_constraints(min_production) ==
    /\ CanCall(2)
    /\ LET pairs == LoopPairs(products, periods)
           r == RunSteps([i \in 1..Len(pairs) |->
                    MinProductionStep(pairs[i][1], pairs[i][2], min_production)])
       IN  /\ constraints' = constraints \o r.cons
           /\ err' = r.err
    /\ big_M' = Some(BigM(min_production))
    /\ stage' = 3
    /\ UNCHANGED <<products, periods, variables, initial_inventory, objective,
                   status, valuation, results, catalogCalls,
                   setupArg, demandArg>>

(***************************************************************************)
(* add_inventory_constraints                                               *)
(***************************************************************************)
InventoryStep(p, t, max_inventory) ==
    LET e == FirstError(VarChecks("inventory", p, t)
                        \o KeyChecks("max_inventory", max_inventory, p))
    IN  IF e # NoErr THEN Fail(e)
        ELSE Emit(<<Constraint("inventory_max", p, t, {Term("inventory", p, t, 1)},
                               0, "<=", max_inventory[p])>>)

add_inventory_constraints(max_inventory) ==
    /\ CanCall(3)
    /\ LET pairs == LoopPairs(products, periods)
           r == RunSteps([i \in 1..Len(pairs) |->
                    InventoryStep(pairs[i][1], pairs[i][2], max_inventory)])
       IN  /\ constraints' = constraints \o r.cons
           /\ err' = r.err
    /\ stage' = 4
    /\ UNCHANGED <<products, periods, variables, initial_inventory, objective,
                   big_M, status, valuation, results, catalogCalls,
                   setupArg, demandArg>>

(***************************************************************************)
(* set_objective                                                           *)
(***************************************************************************)
\* the five lpSum generators, in order
ObjectiveChecks(c) ==
    LET pairs == LoopPairs(products, periods)
        fam(name, cost) ==
            Flatten([i \in 1..Len(pairs) |->
                        KeyChecks(name, cost, pairs[i][1])
                        \o VarChecks(IF name = "production_cost" THEN "production"
                                     ELSE IF name = "setup_cost" THEN "setup"
                                     ELSE IF name = "inventory_cost" THEN "inventory"
                                     ELSE "backlog",
                                     pairs[i][1], pairs[i][2])])
    IN  fam("production_cost", c.production_cost)
        \o fam("setup_cost", c.setup_cost)
        \o fam("inventory_cost", c.inventory_cost)
        \o fam("backlog_cost", c.backlog_cost)
        \o Flatten([i \in 1..Len(periods) |-> OvertimeChecks(periods[i])])

ObjectiveTerms(c) ==
    LET pt == SeqToSet(products) \X SeqToSet(periods)
    IN  {Term("production", k[1], k[2], c.production_cost[k[1]]) : k \in pt}
        \cup {Term("setup", k[1], k[2], c.setup_cost[k[1]]) : k \in pt}
        \cup {Term("inventory", k[1], k[2], c.inventory_cost[k[1]]) : k \in pt}
        \cup {Term("backlog", k[1], k[2], c.backlog_cost[k[1]]) : k \in pt}
        \cup {Term("overtime", "", t, c.overtime_cost) : t \in SeqToSet(periods)}

set_objective(c) ==
    /\ CanCall(4)
    /\ LET e == FirstError(ObjectiveChecks(c))
       IN  /\ err' = e
           /\ objective' = IF e = NoErr THEN Some(ObjectiveTerms(c)) ELSE objective
    /\ stage' = 5
    /\ UNCHANGED <<products, periods, variables, initial_inventory, constraints,
                   big_M, status, valuation, results, catalogCalls,
                   setupArg, demandArg>>


(***************************************************************************)
(* solve: the external solver                                              *)
(***************************************************************************)
\* pulp.LpStatus
LpStatus == {"Optimal", "Not Solved", "Infeasible", "Unbounded", "Undefined"}

\* the values a variable of a family may take: lowBound=0, cat='Binary'
Range(fam) ==
    CASE fam = "production" -> 0..MaxQty
      [] fam = "setup" -> 0..1
      [] fam = "inventory" -> 0..MaxInv
      [] fam = "backlog" -> 0..MaxBack
      [] OTHER -> 0..MaxOT

\* every valuation of the declared variables
Valuations ==
    IF variables = <<>> THEN {<<>>}
    ELSE [production : [variables["production"] -> Range("production")],
          setup : [variables["setup"] -> Range("setup")],
          inventory : [variables["inventory"] -> Range("inventory")],
          backlog : [variables["backlog"] -> Range("backlog")],
          overtime : [variables["overtime"] -> Range("overtime")]]

RECURSIVE SumTerms(_, _)
SumTerms(terms, val) ==
    IF terms = {} THEN 0
    ELSE LET x == CHOOSE y \in terms : TRUE
         IN  x.c * val[x.fam][VarKey(x)] + SumTerms(terms \ {x}, val)

\* val satisfies the constraint
Sat(val, con) ==
    LET lhs == con.const + SumTerms(con.terms, val)
    IN  CASE con.rel = "==" -> lhs = con.rhs
          [] con.rel = "<=" -> lhs <= con.rhs
          [] OTHER -> lhs >= con.rhs

SatAll(val, cons) == \A i \in 1..Len(cons) : Sat(val, cons[i])

\* every variable a constraint mentions is one the registry now holds
TermsDeclared(cons) ==
    \A i \in 1..Len(cons) : \A x \in cons[i].terms :
        x.fam \in DOMAIN variables /\ VarKey(x) \in variables[x.fam]

\* the models the solver is run on
Solvable ==
    /\ TermsDeclared(constraints)
    /\ variables # <<>> => Cardinality(variables["production"]) <= MaxSolveKeys

solve ==
    /\ CanCall(5)
    /\ Solvable
    /\ \/ \E val \in Valuations :
             /\ SatAll(val, constraints)
             /\ status' = "Optimal"
             /\ valuation' = Some(val)
       \/ \E st \in LpStatus \ {"Optimal"} :
             /\ status' = st
             /\ valuation' = None
    /\ stage' = 6
    /\ UNCHANGED <<products, periods, variables, initial_inventory, constraints,
                   objective, big_M, results, err, catalogCalls,
                   setupArg, demandArg>>

(***************************************************************************)
(* get_results                                                             *)
(***************************************************************************)
\* self.variables[fam][key].value()
Value(fam, key) == IF IsNone(valuation) THEN None ELSE Some(valuation[1][fam][key])

\* the five dict comprehensions, in order
ResultChecks ==
    LET pairs == LoopPairs(products, periods)
        fam(name) == Flatten([i \in 1..Len(pairs) |->
                                 VarChecks(name, pairs[i][1], pairs[i][2])])
    IN  fam("production") \o fam("setup") \o fam("inventory") \o fam("backlog")
        \o Flatten([i \in 1..Len(periods) |-> OvertimeChecks(periods[i])])

ResultRow(p, t) ==
    [product |-> p, period |-> t,
     production |-> Value("production", <<p, t>>),
     setup |-> Value("setup", <<p, t>>),
     inventory |-> Value("inventory", <<p, t>>),
     backlog |-> Value("backlog", <<p, t>>),
     overtime |-> Value("overtime", <<t>>)]

ResultRows ==
    LET pairs == LoopPairs(products, periods)
    IN  [i \in 1..Len(pairs) |-> ResultRow(pairs[i][1], pairs[i][2])]

get_results ==
    /\ CanGetResults
    /\ LET e == FirstError(ResultChecks)
       IN  /\ err' = e
           /\ results' = IF e = NoErr THEN ResultRows ELSE results
    /\ stage' = 7
    /\ UNCHANGED <<products, periods, variables, initial_inventory, constraints,
                   objective, big_M, status, valuation, catalogCalls,
                   setupArg, demandArg>>

(***************************************************************************)
(* AdvancedSupplyPlanningModel: inputs.                                    *)
(* A scenario config is a dict; keys is the set of keys it holds, and a    *)
(* field whose key is absent is never read.                                *)
(***************************************************************************)
\* the defaults of scenario_config.get(...)
DefaultFacilities == <<"Factory1">>
DefaultProducts == <<"ProductA">>
DefaultPeriods == <<0, 1, 2, 3>>

RequiredKeys == {"demand", "workforce_params", "cost_parameters"}

\* the catalogs of a config: the keys it gives and their values
CatalogChoices ==
    {[keys |-> {}, facilities |-> <<>>, products |-> <<>>, periods |-> <<>>, d |-> 1],
     [keys |-> {"facilities", "products", "periods", "initial_inventory",
                "material_requirements"},
      facilities |-> <<"Factory1", "Factory2">>, products |-> <<"ProductA">>,
      periods |-> <<0, 1>>, d |-> 2],
     [keys |-> {"facilities", "periods"},
      facilities |-> <<"Warehouse1">>, products |-> <<>>,
      periods |-> <<4, 5>>, d |-> 3]}

\* scenario_config.get(key, default)
Get(cfg, key, default) == IF key \in cfg.keys THEN cfg[key] ELSE default

\* a config: its catalogs, the required keys it lacks, its tables
Config(c, missing) ==
    LET fs == IF "facilities" \in c.keys THEN c.facilities ELSE DefaultFacilities
        ps == IF "products" \in c.keys THEN c.products ELSE DefaultProducts
        ts == IF "periods" \in c.keys THEN c.periods ELSE DefaultPeriods
    IN  [keys |-> c.keys \cup (RequiredKeys \ missing),
         facilities |-> c.facilities,
         products |-> c.products,
         periods |-> c.periods,
         initial_inventory |-> [f \in SeqToSet(fs) |-> [p \in SeqToSet(ps) |-> c.d]],
         demand |-> [p \in SeqToSet(ps) |-> [t \in SeqToSet(ts) |-> c.d]]]

ConfigSet ==
    {Config(c, missing) : c \in CatalogChoices,
                          missing \in {{}} \cup {{k} : k \in RequiredKeys}}

ScenarioNames == <<"Base", "Alt", "Third", "Fourth">>

\* the batches: dicts of one to MaxScenarios named configs, in insertion order
Batches ==
    UNION {{[i \in 1..n |-> [name |-> ScenarioNames[i], cfg |-> cs[i]]] :
                cs \in [1..n -> ConfigSet]} : n \in 1..MaxScenarios}

(***************************************************************************)
(* AdvancedSupplyPlanningModel: the object.                                *)
(***************************************************************************)
\* the attributes __init__ assigns
InitAttributes ==
    [constraints |-> <<>>, objective |-> FALSE, periods |-> <<>>, products |-> <<>>,
     facilities |-> <<>>, variables |-> <<>>, valuation |-> None,
     scenario_results |-> <<>>]

\* a reset that clears the registries but keeps the LpProblem
AdvInit_KeepsModel(self) ==
    [a \in DOMAIN self |->
        IF a \in DOMAIN InitAttributes \ {"constraints", "objective"}
        THEN InitAttributes[a] ELSE self[a]]

\* a reset that leaves the attributes as the previous scenario left them
AdvInit_KeepsState(self) == self

\* self.__init__(): every attribute it names is assigned afresh, the others stay
AdvInit(self) ==
    [a \in DOMAIN self |->
        IF a \in DOMAIN InitAttributes THEN InitAttributes[a] ELSE self[a]]

\* the object after AdvancedSupplyPlanningModel()
AdvNew ==
    [constraints |-> <<>>, objective |-> FALSE, periods |-> <<>>, products |-> <<>>,
     facilities |-> <<>>, variables |-> <<>>, valuation |-> None,
     scenario_results |-> <<>>, initial_inventory |-> <<>>]

\* "for a in s1 for b in s2 for c in s3"
LoopTriples(s1, s2, s3) ==
    Flatten([i \in 1..Len(s1) |->
                LET rest == LoopPairs(s2, s3)
                IN  [j \in 1..Len(rest) |-> <<s1[i], rest[j][1], rest[j][2]>>]])

SkillClasses == {"skilled", "unskilled"}
AdvFamilies ==
    {"production", "setup", "inventory", "backlog", "transport", "workforce", "overtime"}

\* the keys of one variable family over the catalogs
AdvKeys(fam, fs, ps, ts) ==
    CASE fam = "transport" ->
            {k \in fs \X fs \X ps \X ts : k[1] # k[2]}
      [] fam = "workforce" -> fs \X SkillClasses \X ts
      [] fam = "overtime" -> fs \X ts
      [] OTHER -> fs \X ps \X ts

\* add_facilities, add_products, add_periods: each replaces its registry
AdvConfigure(self, cfg) ==
    [self EXCEPT !.facilities = Get(cfg, "facilities", DefaultFacilities),
                 !.products = Get(cfg, "products", DefaultProducts),
                 !.periods = Get(cfg, "periods", DefaultPeriods)]

\* setup_variables(initial_inventory): one variable per key of every family;
\* initial_inventory defaults to zero
AdvSetupVariables(self, cfg) ==
    LET fs == SeqToSet(self.facilities)
        ps == SeqToSet(self.products)
        ts == SeqToSet(self.periods)
    IN  [self EXCEPT
            !.variables = [fam \in AdvFamilies |-> AdvKeys(fam, fs, ps, ts)],
            !.initial_inventory =
                IF "initial_inventory" \in cfg.keys THEN cfg.initial_inventory
                ELSE [f \in fs |-> [p \in ps |-> 0]]]

\* a constraint of the multi-facility model: its family, its key, its data
AdvConstraint(fam, f, p, t, rhs) == [fam |-> fam, f |-> f, p |-> p, t |-> t, rhs |-> rhs]

\* add_demand_satisfaction_constraints(demand): one balance per key
AdvDemandConstraints(self, demand) ==
    LET ks == LoopTriples(self.facilities, self.products, self.periods)
    IN  [i \in 1..Len(ks) |->
            AdvConstraint("demand", ks[i][1], ks[i][2], ks[i][3],
                          demand[ks[i][2]][ks[i][3]])]

\* add_workforce_constraints(workforce_params): per (facility, period)
AdvWorkforceConstraints(self) ==
    LET ks == LoopPairs(self.facilities, self.periods)
    IN  [i \in 1..Len(ks) |-> AdvConstraint("workforce", ks[i][1], "", ks[i][2], 0)]

\* add_material_requirements_constraints(material_requirements)
AdvMaterialConstraints(self) == <<AdvConstraint("material", "", "", -1, 0)>>

\* lines 110-116: the builders in order; a missing required key raises
\* KeyError and leaves what was built before it
AdvBuild(self, cfg) ==
    LET s1 == IF "demand" \in cfg.keys
              THEN [self EXCEPT !.constraints = @ \o AdvDemandConstraints(self, cfg.demand)]
              ELSE self
        s2 == IF "workforce_params" \in cfg.keys
              THEN [s1 EXCEPT !.constraints = @ \o AdvWorkforceConstraints(s1)]
              ELSE s1
        s3 == IF "material_requirements" \in cfg.keys
              THEN [s2 EXCEPT !.constraints = @ \o AdvMaterialConstraints(s2)]
              ELSE s2
        s4 == [s3 EXCEPT !.objective = TRUE]
    IN  IF "demand" \notin cfg.keys
        THEN [self |-> self, err |-> Raise("KeyError", "scenario_config", "demand", -1)]
        ELSE IF "workforce_params" \notin cfg.keys
        THEN [self |-> s1,
              err |-> Raise("KeyError", "scenario_config", "workforce_params", -1)]
        ELSE IF "cost_parameters" \notin cfg.keys
        THEN [self |-> s3,
              err |-> Raise("KeyError", "scenario_config", "cost_parameters", -1)]
        ELSE [self |-> s4, err |-> NoErr]

(***************************************************************************)
(* AdvancedSupplyPlanningModel: solve and get_results.                     *)
(***************************************************************************)
\* production and setup of every key in the solver's answer
PlanChoices ==
    {[production |-> 0, setup |-> 0], [production |-> 1, setup |-> 0],
     [production |-> 1, setup |-> 1]}

\* a valuation: any transport flows from flows, one plan for the other families
AdvValuation(self, tf, plan) ==
    [fam \in AdvFamilies |->
        IF fam = "transport" THEN tf
        ELSE [k \in self.variables[fam] |->
                 IF fam \in DOMAIN plan THEN plan[fam] ELSE 0]]

\* the valuations an Optimal answer may carry: every variable within its domain
OptimalValuations(self) ==
    {AdvValuation(self, tf, plan) :
        tf \in [self.variables["transport"] -> 0..MaxFlow], plan \in PlanChoices}

\* what a solver that found no optimum leaves in the variables: nothing, or
\* values bound by no constraint
LeftoverValuations(self) ==
    {None,
     Some(AdvValuation(self, [k \in self.variables["transport"] |-> -1],
                       [production |-> 1, setup |-> 0]))}

\* self.variables[fam][key].value()
AdvValue(self, fam, key) ==
    IF IsNone(self.valuation) THEN None ELSE Some(self.valuation[1][fam][key])

\* the quantity test written as >= 0
TransportEmitted_NonNegative(f1, f2, qty) == f1 # f2 /\ qty[1] >= 0

\* lines 55-57: the record of a lane is emitted
TransportEmitted(f1, f2, qty) == f1 # f2 /\ qty[1] > 0

\* lines 51-64: the lanes in loop order
TransportLanes(self) ==
    LET pairs == LoopPairs(self.facilities, self.facilities)
        inner == LoopPairs(self.products, self.periods)
    IN  Flatten([i \in 1..Len(pairs) |->
                    [j \in 1..Len(inner) |->
                        <<pairs[i][1], pairs[i][2], inner[j][1], inner[j][2]>>]])

IsLaneRead(k) == k[1] # k[2]

\* None > 0 raises TypeError: the lanes whose value is compared
TransportRaises(self) ==
    IsNone(self.valuation) /\ SelectSeq(TransportLanes(self), IsLaneRead) # <<>>

TransportRecords(self) ==
    LET emitted(k) == IsLaneRead(k)
                      /\ TransportEmitted(k[1], k[2], AdvValue(self, "transport", k))
        lanes == SelectSeq(TransportLanes(self), emitted)
    IN  [i \in 1..Len(lanes) |->
            [from_facility |-> lanes[i][1], to_facility |-> lanes[i][2],
             product |-> lanes[i][3], period |-> lanes[i][4],
             quantity |-> AdvValue(self, "transport", lanes[i])]]

ProductionRecords_FirstFacility(self) ==
    LET ks == LoopPairs(self.products, self.periods)
    IN  [i \in 1..Len(ks) |->
            [facility |-> self.facilities[1], product |-> ks[i][1], period |-> ks[i][2],
             quantity |-> AdvValue(self, "production", <<self.facilities[1], ks[i][1], ks[i][2]>>),
             setup |-> AdvValue(self, "setup", <<self.facilities[1], ks[i][1], ks[i][2]>>)]]

ProductionRecords(self) ==
    LET ks == LoopTriples(self.facilities, self.products, self.periods)
    IN  [i \in 1..Len(ks) |->
            [facility |-> ks[i][1], product |-> ks[i][2], period |-> ks[i][3],
             quantity |-> AdvValue(self, "production", ks[i]),
             setup |-> AdvValue(self, "setup", ks[i])]]

InventoryRecords(self) ==
    LET ks == LoopTriples(self.facilities, self.products, self.periods)
    IN  [i \in 1..Len(ks) |->
            [facility |-> ks[i][1], product |-> ks[i][2], period |-> ks[i][3],
             inventory |-> AdvValue(self, "inventory", ks[i]),
             backlog |-> AdvValue(self, "backlog", ks[i])]]

WorkforceRecords(self) ==
    LET ks == LoopPairs(self.facilities, self.periods)
    IN  [i \in 1..Len(ks) |->
            [facility |-> ks[i][1], period |-> ks[i][2],
             skilled_workforce |->
                 AdvValue(self, "workforce", <<ks[i][1], "skilled", ks[i][2]>>),
             unskilled_workforce |->
                 AdvValue(self, "workforce", <<ks[i][1], "unskilled", ks[i][2]>>),
             overtime |-> AdvValue(self, "overtime", <<ks[i][1], ks[i][2]>>)]]

NoResults ==
    [production |-> <<>>, inventory |-> <<>>, transportation |-> <<>>,
     workforce |-> <<>>]

\* AdvancedSupplyPlanningModel.get_results
AdvGetResults(self) ==
    IF TransportRaises(self)
    THEN [err |-> Raise("TypeError", "transport_qty > 0", "", -1), results |-> NoResults]
    ELSE [err |-> NoErr,
          results |-> [production |-> ProductionRecords(self),
                       inventory |-> InventoryRecords(self),
                       transportation |-> TransportRecords(self),
                       workforce |-> WorkforceRecords(self)]]

(***************************************************************************)
(* generate_scenario_comparison, step by step.                             *)
(***************************************************************************)
Current == scenarios[idx]
Running == raised = NoErr /\ idx \in 1..Len(scenarios)

\* line 99
Reset ==
    /\ Running /\ pcA = "reset"
    /\ adv' = AdvInit(adv)
    /\ pcA' = "configure"
    /\ UNCHANGED <<scenarios, idx, solve_status, extracted, comparison_results,
                   raised, solverLog>>

\* lines 102-104
Configure ==
    /\ Running /\ pcA = "configure"
    /\ adv' = AdvConfigure(adv, Current.cfg)
    /\ pcA' = "declare"
    /\ UNCHANGED <<scenarios, idx, solve_status, extracted, comparison_results,
                   raised, solverLog>>

\* line 107
Declare ==
    /\ Running /\ pcA = "declare"
    /\ adv' = AdvSetupVariables(adv, Current.cfg)
    /\ pcA' = "build"
    /\ UNCHANGED <<scenarios, idx, solve_status, extracted, comparison_results,
                   raised, solverLog>>

\* lines 110-116: an exception leaves the loop and the method
Build ==
    /\ Running /\ pcA = "build"
    /\ LET r == AdvBuild(adv, Current.cfg)
       IN  /\ adv' = r.self
           /\ raised' = r.err
           /\ pcA' = IF r.err = NoErr THEN "solve" ELSE "build"
    /\ UNCHANGED <<scenarios, idx, solve_status, extracted, comparison_results,
                   solverLog>>

\* the problem handed to the solver: self.model and the variables in it
BuiltModel(self) ==
    [variables |-> self.variables, constraints |-> self.constraints,
     objective |-> self.objective]

\* line 119: the external solver answers
Solve ==
    /\ Running /\ pcA = "solve"
    /\ \/ \E val \in OptimalValuations(adv) :
             /\ solve_status' = "Optimal"
             /\ adv' = [adv EXCEPT !.valuation = Some(val)]
       \/ \E st \in LpStatus \ {"Optimal"}, left \in LeftoverValuations(adv) :
             /\ solve_status' = st
             /\ adv' = [adv EXCEPT !.valuation = left]
    /\ solverLog' = Append(solverLog, [name |-> Current.name, status |-> solve_status',
                                       valuation |-> adv'.valuation,
                                       model |-> BuiltModel(adv)])
    /\ pcA' = "extract"
    /\ UNCHANGED <<scenarios, idx, extracted, comparison_results, raised>>

\* line 120
Extract ==
    /\ Running /\ pcA = "extract"
    /\ LET r == AdvGetResults(adv)
       IN  /\ extracted' = r.results
           /\ raised' = r.err
           /\ pcA' = IF r.err = NoErr THEN "store" ELSE "extract"
    /\ UNCHANGED <<scenarios, idx, adv, solve_status, comparison_results, solverLog>>

\* lines 122-125, and the loop's next item
Store ==
    /\ Running /\ pcA = "store"
    /\ comparison_results' =
          [n \in DOMAIN comparison_results \cup {Current.name} |->
              IF n = Current.name
              THEN [status |-> solve_status, results |-> extracted]
              ELSE comparison_results[n]]
    /\ idx' = idx + 1
    /\ pcA' = "reset"
    /\ UNCHANGED <<scenarios, adv, solve_status, extracted, raised, solverLog>>

\* line 127
Return ==
    /\ raised = NoErr /\ pcA = "reset" /\ idx = Len(scenarios) + 1
    /\ pcA' = "returned"
    /\ UNCHANGED <<scenarios, idx, adv, solve_status, extracted, comparison_results,
                   raised, solverLog>>

\* model = AdvancedSupplyPlanningModel(); model.generate_scenario_comparison(batch)
InitScenario ==
    /\ SpmInit
    /\ scenarios \in Batches
    /\ idx = 1
    /\ pcA = "reset"
    /\ adv = AdvNew
    /\ solve_status = ""
    /\ extracted = NoResults
    /\ comparison_results = <<>>
    /\ raised = NoErr
    /\ solverLog = <<>>
    /\ RuleInit

NextScenario ==
    \/ Reset /\ UNCHANGED <<spmVars, ruleVars>>
    \/ Configure /\ UNCHANGED <<spmVars, ruleVars>>
    \/ Declare /\ UNCHANGED <<spmVars, ruleVars>>
    \/ Build /\ UNCHANGED <<spmVars, ruleVars>>
    \/ Solve /\ UNCHANGED <<spmVars, ruleVars>>
    \/ Extract /\ UNCHANGED <<spmVars, ruleVars>>
    \/ Store /\ UNCHANGED <<spmVars, ruleVars>>
    \/ Return /\ UNCHANGED <<spmVars, ruleVars>>

SpecScenario == InitScenario /\ [][NextScenario]_vars

(***************************************************************************)
(* generate_scenario_comparison with a deterministic solver: asked the     *)
(* same problem again, the solver gives the answer it gave before.         *)
(***************************************************************************)
DeterministicSolver ==
    \A i, j \in 1..Len(solverLog) :
        solverLog[i].model = solverLog[j].model =>
            /\ solverLog[i].status = solverLog[j].status
            /\ solverLog[i].valuation = solverLog[j].valuation

SolveDeterministic == Solve /\ DeterministicSolver'

NextDeterministic ==
    \/ Reset /\ UNCHANGED <<spmVars, ruleVars>>
    \/ Configure /\ UNCHANGED <<spmVars, ruleVars>>
    \/ Declare /\ UNCHANGED <<spmVars, ruleVars>>
    \/ Build /\ UNCHANGED <<spmVars, ruleVars>>
    \/ SolveDeterministic /\ UNCHANGED <<spmVars, ruleVars>>
    \/ Extract /\ UNCHANGED <<spmVars, ruleVars>>
    \/ Store /\ UNCHANGED <<spmVars, ruleVars>>
    \/ Return /\ UNCHANGED <<spmVars, ruleVars>>

SpecDeterministic == InitScenario /\ [][NextDeterministic]_vars

(***************************************************************************)
(* The single-facility specification.                                      *)
(***************************************************************************)
\* no batch is run
AdvIdle ==
    /\ scenarios = <<>>
    /\ idx = 0
    /\ pcA = "idle"
    /\ adv = AdvNew
    /\ solve_status = ""
    /\ extracted = NoResults
    /\ comparison_results = <<>>
    /\ raised = NoErr
    /\ solverLog = <<>>

Init == SpmInit /\ AdvIdle /\ RuleInit

Next ==
    \/ \E ps \in ProductLists : add_products(ps) /\ UNCHANGED <<advVars, ruleVars>>
    \/ \E ts \in PeriodLists : add_periods(ts) /\ UNCHANGED <<advVars, ruleVars>>
    \/ \E a \in InitialInventoryArgs : setup_variables(a) /\ UNCHANGED <<advVars, ruleVars>>
    \/ \E d \in DemandArgs : add_demand_constraints(d) /\ UNCHANGED <<advVars, ruleVars>>
    \/ \E a \in CapacityArgs : add_capacity_constraints(a) /\ UNCHANGED <<advVars, ruleVars>>
    \/ \E m \in MinProductionArgs :
          add_minimum_production_constraints(m) /\ UNCHANGED <<advVars, ruleVars>>
    \/ \E m \in MaxInventoryArgs : add_inventory_constraints(m) /\ UNCHANGED <<advVars, ruleVars>>
    \/ \E c \in CostArgs : set_objective(c) /\ UNCHANGED <<advVars, ruleVars>>
    \/ solve /\ UNCHANGED <<advVars, ruleVars>>
    \/ get_results /\ UNCHANGED <<advVars, ruleVars>>

Spec == Init /\ [][Next]_vars

(***************************************************************************)
(* The dashboard script and the constraint classes as specifications.      *)
(***************************************************************************)
\* the evaluation loop, the constraint and the context of each call free
NextDashboard ==
    \E i \in 1..Len(SampleConstraints), context \in Contexts :
        evaluate(i, context) /\ UNCHANGED <<spmVars, advVars>>

SpecDashboard == Init /\ [][NextDashboard]_vars

EvaluateLevels == {0, 100, 500, 600, 1000}

NextConstraints ==
    \/ \E a \in ConstructorArgs : NewInventoryConstraint(a) /\ UNCHANGED <<spmVars, advVars>>
    \/ \E a \in ConstructorArgs : NewCapacityConstraint(a) /\ UNCHANGED <<spmVars, advVars>>
    \/ \E level \in EvaluateLevels : EvaluateLevel(level) /\ UNCHANGED <<spmVars, advVars>>

SpecConstraints == Init /\ [][NextConstraints]_vars


(***************************************************************************)
(* Properties of the single-facility model.                                *)
(***************************************************************************)
Pairs == SeqToSet(products) \X SeqToSet(periods)

\* the element that precedes t in the supplied list
ListPrev(t) == periods[(CHOOSE i \in 1..Len(periods) : periods[i] = t) - 1]

\* every (product, period) of the catalog has its variables declared
Declared ==
    /\ DOMAIN variables = Families
    /\ \A fam \in PTFamilies : Pairs \subseteq variables[fam]
    /\ \A t \in SeqToSet(periods) : <<t>> \in variables["overtime"]

\* initial_inventory holds an entry for every product
InventoryCovers ==
    initial_inventory.set /\ SeqToSet(products) \subseteq DOMAIN initial_inventory.map

\* the (product, period) keys the demand table d lacks
MissingDemand(d) ==
    {k \in Pairs : k[1] \notin DOMAIN d \/ k[2] \notin DOMAIN d[k[1]]}

\* the emitted demand equalities of (p, t)
DemandCons(p, t) ==
    {i \in 1..Len(constraints) :
        constraints[i].fam = "demand" /\ constraints[i].p = p /\ constraints[i].t = t}

\* the balance the specification states for (p, t), prev the list predecessor
ExpectedBalance(p, t, d) ==
    IF t = periods[1]
    THEN Constraint("demand", p, t,
                    {Term("production", p, t, 1), Term("inventory", p, t, -1),
                     Term("backlog", p, t, 1)},
                    initial_inventory.map[p], "==", d[p][t])
    ELSE Constraint("demand", p, t,
                    {Term("inventory", p, ListPrev(t), 1), Term("production", p, t, 1),
                     Term("inventory", p, t, -1), Term("backlog", p, t, 1),
                     Term("backlog", p, ListPrev(t), -1)},
                    0, "==", d[p][t])

BalancesAsSpecified(d) ==
    \A k \in Pairs :
        /\ Cardinality(DemandCons(k[1], k[2])) = 1
        /\ \A i \in DemandCons(k[1], k[2]) :
              constraints[i] = ExpectedBalance(k[1], k[2], d)

\* C4: for every ascending list of periods, contiguous or not,
\* add_demand_constraints emits exactly one equality per (product, period):
\* opening from initial_inventory at the first element, chaining from the
\* list predecessor at every later element.
C4_OneBalancePerKey ==
    (/\ stage = 1
     /\ demandArg # None
     /\ Declared
     /\ InventoryCovers
     /\ MissingDemand(demandArg[1]) = {})
    => (err = NoErr /\ BalancesAsSpecified(demandArg[1]))

\* C4 on the lists of consecutive integers: there the code does as specified
C4_ContiguousBalances ==
    (/\ stage = 1
     /\ demandArg # None
     /\ Declared
     /\ InventoryCovers
     /\ MissingDemand(demandArg[1]) = {}
     /\ Contiguous(periods))
    => (err = NoErr /\ BalancesAsSpecified(demandArg[1]))

\* the exception names a key the demand table d lacks
NamesMissingDemandKey(d) ==
    /\ err.kind = "KeyError"
    /\ err.what = "demand"
    /\ \/ err.p # "" /\ \E k \in MissingDemand(d) : k[1] = err.p /\ err.p \notin DOMAIN d
       \/ err.t # -1 /\ \E k \in MissingDemand(d) : k[2] = err.t

\* C7: if demand is missing for a declared (product, period), the build fails
\* with an error that identifies the missing key, no balance is built for
\* that key, and nothing is solved.
C7_MissingDemandFails ==
    (/\ demandArg # None
     /\ Declared
     /\ InventoryCovers
     /\ MissingDemand(demandArg[1]) # {})
    => (/\ NamesMissingDemandKey(demandArg[1])
        /\ status = "unsolved"
        /\ \A k \in MissingDemand(demandArg[1]) : DemandCons(k[1], k[2]) = {})

\* C7 on the lists of consecutive integers
C7_ContiguousMissingDemandFails ==
    (/\ demandArg # None
     /\ Declared
     /\ InventoryCovers
     /\ Contiguous(periods)
     /\ MissingDemand(demandArg[1]) # {})
    => (/\ NamesMissingDemandKey(demandArg[1])
        /\ status = "unsolved"
        /\ \A k \in MissingDemand(demandArg[1]) : DemandCons(k[1], k[2]) = {})

\* a first-period balance with opening inventory 0
ZeroOpeningBalance(c) ==
    /\ c.const = 0
    /\ c.terms = {Term("production", c.p, c.t, 1), Term("inventory", c.p, c.t, -1),
                  Term("backlog", c.p, c.t, 1)}
    /\ c.rhs = demandArg[1][c.p][c.t]

FirstPeriodBalances ==
    {i \in 1..Len(constraints) :
        constraints[i].fam = "demand" /\ constraints[i].t = periods[1]}

\* C8 (as amended): when setup_variables is called with initial_inventory
\* omitted, every product registered at that call opens at 0: each
\* first-period balance that is built is production - inventory + backlog =
\* demand, and no read of initial_inventory fails for such a product.  A
\* supplied mapping that lacks a product is not defaulted: the build fails
\* and no first-period balance is built for that product.
C8_DefaultWhenMappingOmitted ==
    /\ (setupArg # None /\ IsNone(setupArg[1])) =>
          /\ initial_inventory.set
          /\ \A p \in DOMAIN initial_inventory.map : initial_inventory.map[p] = 0
          /\ \A i \in FirstPeriodBalances : ZeroOpeningBalance(constraints[i])
          /\ Declared => err.what # "initial_inventory"
    /\ (setupArg # None /\ ~IsNone(setupArg[1])) =>
          /\ initial_inventory.map = setupArg[1][1]
          /\ \A p \in SeqToSet(products) \ DOMAIN setupArg[1][1] :
                /\ \A i \in FirstPeriodBalances : constraints[i].p # p
                /\ (demandArg # None /\ periods # <<>>) => err # NoErr

C8_Witness ==
    /\ setupArg # None /\ IsNone(setupArg[1])
    /\ stage = 1
    /\ err = NoErr
    /\ Len(products) = 2
    /\ Cardinality(FirstPeriodBalances) = 2

\* C8 as claimed: a product without a supplied initial_inventory (the whole
\* mapping omitted, or the product absent from it) gets a first-period
\* balance with opening inventory 0 and the build does not fail.
C8_DefaultPerProduct ==
    (/\ stage = 1
     /\ demandArg # None
     /\ setupArg # None
     /\ Declared
     /\ Contiguous(periods)
     /\ periods # <<>>
     /\ MissingDemand(demandArg[1]) = {})
    => \A p \in SeqToSet(products) :
          (IsNone(setupArg[1]) \/ p \notin DOMAIN setupArg[1][1]) =>
              /\ err = NoErr
              /\ \E i \in FirstPeriodBalances :
                    constraints[i].p = p /\ ZeroOpeningBalance(constraints[i])

\* the identity of (p, t) under the solver's values, opening from open0 at
\* the first period
FlowBalance(val, p, t, open0) ==
    LET first == t = periods[1]
        prevInventory == IF first THEN open0 ELSE val.inventory[<<p, ListPrev(t)>>]
        prevBacklog == IF first THEN 0 ELSE val.backlog[<<p, ListPrev(t)>>]
    IN  prevInventory + val.production[<<p, t>>] - val.inventory[<<p, t>>]
        + val.backlog[<<p, t>>] - prevBacklog = demandArg[1][p][t]

\* C9 (as amended): for every solved (product, period), prevInventory +
\* production - inventory + backlog - prevBacklog = demand, where at
\* period[0] prevInventory is initial_inventory[p] and prevBacklog is 0.
C9_FlowBalance ==
    status = "Optimal" =>
        \A k \in Pairs :
            FlowBalance(valuation[1], k[1], k[2], initial_inventory.map[k[1]])

C9_Witness ==
    /\ status = "Optimal"
    /\ Len(periods) = 2
    /\ products # <<>>
    /\ \E p \in SeqToSet(products) : initial_inventory.map[p] > 0

\* C9 as claimed: prevInventory and prevBacklog are both 0 at period[0]
C9_FlowBalanceZeroOpening ==
    status = "Optimal" =>
        \A k \in Pairs : FlowBalance(valuation[1], k[1], k[2], 0)

\* the emitted constraints other than production <= big_M * setup
NotLotUpper(c) == c.fam # "lot_upper"
RemainingConstraints == SelectSeq(constraints, NotLotUpper)

\* C6: big_M never tightens the feasible region: every plan that satisfies
\* the remaining constraints and has setup = 1 for a key has production of
\* that key at most big_M.
C6_BigMNeverTightens ==
    (stage = 5 /\ err = NoErr /\ Solvable /\ variables # <<>>) =>
        \A val \in Valuations :
            SatAll(val, RemainingConstraints) =>
                \A k \in variables["production"] :
                    val.setup[k] = 1 => val.production[k] <= big_M[1]

\* lot-sizing linkage of the single-facility pipeline, where
\* add_minimum_production_constraints is called before solve
LotSizingLinkageSingleFacility ==
    status = "Optimal" =>
        \A k \in Pairs : valuation[1].production[k] > 0 => valuation[1].setup[k] = 1


(***************************************************************************)
(* Properties of generate_scenario_comparison (SpecScenario).              *)
(***************************************************************************)
OwnFacilities(cfg) == Get(cfg, "facilities", DefaultFacilities)
OwnProducts(cfg) == Get(cfg, "products", DefaultProducts)
OwnPeriods(cfg) == Get(cfg, "periods", DefaultPeriods)

\* what a config alone declares and emits, on an object nothing ran on before
OwnBuild(cfg) ==
    AdvBuild(AdvSetupVariables(AdvConfigure(AdvNew, cfg), cfg), cfg).self

\* the records of one result, all four lists
AllRecords(res) ==
    SeqToSet(res.production) \cup SeqToSet(res.inventory)
        \cup SeqToSet(res.transportation) \cup SeqToSet(res.workforce)

RecordPeriods(res) == {r.period : r \in AllRecords(res)}
RecordFacilities(res) ==
    {r.facility : r \in SeqToSet(res.production) \cup SeqToSet(res.inventory)
                         \cup SeqToSet(res.workforce)}
        \cup {r.from_facility : r \in SeqToSet(res.transportation)}
        \cup {r.to_facility : r \in SeqToSet(res.transportation)}

OwnRecords(res, cfg) ==
    /\ RecordPeriods(res) = SeqToSet(OwnPeriods(cfg))
    /\ RecordFacilities(res) = SeqToSet(OwnFacilities(cfg))
    /\ {r.product : r \in SeqToSet(res.production)} = SeqToSet(OwnProducts(cfg))

\* C1: scenario isolation.  While a scenario of a batch is solved, extracted
\* or stored, the object's facilities, products, periods, declared variables,
\* initial inventory, constraints and objective are exactly what that
\* scenario's own config declares and emits on a fresh object; the records
\* extracted for it, and the records stored for every scenario before it,
\* carry only the facilities, products and periods of their own config.
C1_ScenarioIsolation ==
    (Running /\ pcA \in {"solve", "extract", "store"}) =>
        /\ [adv EXCEPT !.valuation = None] = OwnBuild(Current.cfg)
        /\ pcA = "store" => OwnRecords(extracted, Current.cfg)
        /\ \A i \in 1..(idx - 1) :
              /\ scenarios[i].name \in DOMAIN comparison_results
              /\ OwnRecords(comparison_results[scenarios[i].name].results,
                            scenarios[i].cfg)

\* the second scenario of a batch is stored, its catalogs differing from the
\* first one's, which emitted constraints
C1_Witness ==
    /\ raised = NoErr /\ idx = 2 /\ pcA = "store" /\ Len(scenarios) = 2
    /\ OwnPeriods(scenarios[1].cfg) # OwnPeriods(scenarios[2].cfg)
    /\ OwnFacilities(scenarios[1].cfg) # OwnFacilities(scenarios[2].cfg)
    /\ OwnBuild(scenarios[1].cfg).constraints # <<>>
    /\ "material_requirements" \in scenarios[1].cfg.keys
    /\ "material_requirements" \notin scenarios[2].cfg.keys

Complete(cfg) == RequiredKeys \subseteq cfg.keys

\* C2: a build-time error aborts only its scenario.  A state in which a
\* missing required key has raised is the method's last (the exception leaves
\* it), so every other scenario of the batch must have its record by then,
\* and the method must still return.
C2_BuildErrorAbortsOnlyItsScenario ==
    (raised # NoErr /\ raised.kind = "KeyError") =>
        \A i \in 1..Len(scenarios) :
            (i # idx /\ Complete(scenarios[i].cfg)) =>
                scenarios[i].name \in DOMAIN comparison_results

\* C3: a non-optimal status is data.  Every scenario the solver answered
\* with a status other than Optimal raises nothing, is solved once, and,
\* once the loop has moved past it, has a record whose status is that answer.
C3_NonOptimalStatusIsData ==
    /\ Len(solverLog) <= Len(scenarios)
    /\ \A i \in 1..Len(solverLog) :
          solverLog[i].status # "Optimal" =>
              /\ solverLog[i].name = scenarios[i].name
              /\ ~(i = idx /\ raised # NoErr)
              /\ i < idx =>
                    /\ solverLog[i].name \in DOMAIN comparison_results
                    /\ comparison_results[solverLog[i].name].status
                           = solverLog[i].status

LotSizingFamilies == {"lot_lower", "lot_upper"}

\* C5: lot-sizing linkage in every solved scenario.  When a scenario has
\* been solved to optimality, the lower and the upper lot-sizing constraint
\* were emitted for every declared key of production, and the valuation has
\* production > 0 only where setup = 1.
C5_LotSizingLinkage ==
    (Running /\ pcA \in {"extract", "store"} /\ solve_status = "Optimal") =>
        \A k \in adv.variables["production"] :
            /\ \A fam \in LotSizingFamilies :
                  \E i \in 1..Len(adv.constraints) :
                      /\ adv.constraints[i].fam = fam
                      /\ <<adv.constraints[i].f, adv.constraints[i].p,
                           adv.constraints[i].t>> = k
            /\ adv.valuation[1]["production"][k] > 0 =>
                  adv.valuation[1]["setup"][k] = 1

\* the records of the transportation list that report one lane
LaneRecords(res, k) ==
    {i \in 1..Len(res.transportation) :
        /\ res.transportation[i].from_facility = k[1]
        /\ res.transportation[i].to_facility = k[2]
        /\ res.transportation[i].product = k[3]
        /\ res.transportation[i].period = k[4]}

\* C10: the transportation list get_results returned holds no record with
\* quantity <= 0 and none from a facility to itself, and every lane between
\* distinct facilities whose value is strictly positive has exactly one
\* record, with that value.
C10_TransportationRecords ==
    (Running /\ pcA = "store") =>
        /\ \A r \in SeqToSet(extracted.transportation) :
              r.quantity[1] > 0 /\ r.from_facility # r.to_facility
        /\ ~IsNone(adv.valuation) =>
              \A k \in adv.variables["transport"] :
                  adv.valuation[1]["transport"][k] > 0 =>
                      /\ Cardinality(LaneRecords(extracted, k)) = 1
                      /\ \A i \in LaneRecords(extracted, k) :
                            extracted.transportation[i].quantity
                                = Some(adv.valuation[1]["transport"][k])

\* results were extracted with a positive lane reported and a zero lane left out
C10_Witness ==
    /\ raised = NoErr /\ pcA = "store" /\ ~IsNone(adv.valuation)
    /\ \E k1, k2 \in adv.variables["transport"] :
          /\ adv.valuation[1]["transport"][k1] > 0
          /\ adv.valuation[1]["transport"][k2] = 0
          /\ LaneRecords(extracted, k1) # {}
          /\ LaneRecords(extracted, k2) = {}


(***************************************************************************)
(* Both pipelines in one specification: a run is either the driver script  *)
(* on a SupplyPlanningModel or one generate_scenario_comparison call.      *)
(***************************************************************************)
InitPipelines == Init \/ InitScenario

NextPipelines ==
    \/ pcA = "idle" /\ Next
    \/ NextScenario

SpecPipelines == InitPipelines /\ [][NextPipelines]_vars

\* the production records of one (facility, product, period)
ProductionRecordsOf(res, k) ==
    {i \in 1..Len(res.production) :
        /\ res.production[i].facility = k[1]
        /\ res.production[i].product = k[2]
        /\ res.production[i].period = k[3]}

\* the rows of one (product, period)
RowsOf(k) ==
    {i \in 1..Len(results) : results[i].product = k[1] /\ results[i].period = k[2]}

\* C11: the number of production records get_results emits is
\* |facilities| x |products| x |periods| in the multi-facility model and
\* |products| x |periods| in the single-facility model, with exactly one
\* record per declared key of the scenario's catalogs.
C11_ProductionRecordCount ==
    /\ (Running /\ pcA = "store") =>
          /\ Len(extracted.production)
                = Len(adv.facilities) * Len(adv.products) * Len(adv.periods)
          /\ \A k \in adv.variables["production"] :
                Cardinality(ProductionRecordsOf(extracted, k)) = 1
    /\ (pcA = "idle" /\ stage = 7 /\ err = NoErr) =>
          /\ Len(results) = Len(products) * Len(periods)
          /\ \A k \in Pairs : Cardinality(RowsOf(k)) = 1

\* results of a scenario with two facilities and two periods were extracted
C11_Witness ==
    /\ raised = NoErr /\ pcA = "store"
    /\ Len(adv.facilities) = 2 /\ Len(adv.periods) = 2
    /\ Len(extracted.production) = 4


(***************************************************************************)
(* Properties under a deterministic solver (SpecDeterministic).            *)
(***************************************************************************)
\* the positions of a batch that hold the same config
SameConfig(i, j) == scenarios[i].cfg = scenarios[j].cfg

\* C12: determinism.  When the same config is built and solved twice in
\* one batch, under two names, the second build's variables, constraints
\* and objective equal the first's, and with a deterministic solver both
\* names get the same status and the same result records.
C12_Determinism ==
    \A i, j \in 1..Len(scenarios) :
        SameConfig(i, j) =>
            /\ (i <= Len(solverLog) /\ j <= Len(solverLog)) =>
                  solverLog[i].model = solverLog[j].model
            /\ (/\ scenarios[i].name \in DOMAIN comparison_results
                /\ scenarios[j].name \in DOMAIN comparison_results) =>
                  comparison_results[scenarios[i].name]
                      = comparison_results[scenarios[j].name]

\* one config was built, solved to a plan with a flow, and stored under two names
C12_Witness ==
    /\ Len(scenarios) = 2 /\ SameConfig(1, 2)
    /\ pcA = "returned"
    /\ DOMAIN comparison_results = {scenarios[1].name, scenarios[2].name}
    /\ comparison_results[scenarios[1].name].status = "Optimal"
    /\ comparison_results[scenarios[1].name].results.transportation # <<>>
    /\ solverLog[1].model.constraints # <<>>


(***************************************************************************)
(* Variable lookup in the single-facility model (Spec).                    *)
(***************************************************************************)
\* the families whose variables the calls made so far have looked up
FamiliesRead ==
    CASE stage = 0 -> {}
      [] stage = 1 -> {"production", "inventory", "backlog"}
      [] OTHER -> Families

\* the keys of a family the calls made so far have looked up: one per element
\* of the catalog, and for the balances of later periods the keys of t-1
KeysRead(fam) ==
    IF fam = "overtime" THEN {<<t>> : t \in SeqToSet(periods)}
    ELSE Pairs \cup
         (IF fam \in {"inventory", "backlog"} /\ demandArg # None
          THEN {<<k[1], PrevPeriod(k[2])>> : k \in {q \in Pairs : q[2] # periods[1]}}
          ELSE {})

IsDeclared(fam, k) == fam \in DOMAIN variables /\ k \in variables[fam]

\* once a builder or get_results has run, a key it looked up that is not
\* declared has ended the run in an error
UndeclaredLookupFails ==
    \A fam \in FamiliesRead :
        (\E k \in KeysRead(fam) : ~IsDeclared(fam, k)) => err # NoErr

\* what ran without error skipped nothing: one balance per (product, period),
\* one row per (product, period)
NothingSkipped ==
    /\ (stage \in 1..6 /\ err = NoErr) =>
          \A k \in Pairs : Cardinality(DemandCons(k[1], k[2])) = 1
    /\ (stage = 7 /\ err = NoErr) =>
          \A k \in Pairs : Cardinality(RowsOf(k)) = 1

\* only setup_variables changes the declared variables, and it declares
\* exactly the keys of the catalog it is called on
OnlySetupDeclares ==
    variables' # variables =>
        /\ stage = 0
        /\ setupArg' # None
        /\ variables' = [fam \in Families |-> DeclaredKeys(fam)]

\* C13: in any sequence of add_products, add_periods, setup_variables,
\* builder, set_objective and get_results calls, every lookup of a key the
\* most recent setup_variables did not declare ends in an error; no variable
\* is created implicitly and no constraint or record is silently skipped.
C13_UndeclaredKeyIsAnError ==
    /\ [](UndeclaredLookupFails /\ NothingSkipped)
    /\ [][OnlySetupDeclares]_vars

\* a builder, called after the catalog was replaced, looked up a key the
\* declaration does not hold and raised KeyError for it
C13_Witness ==
    /\ stage = 1
    /\ setupArg # None
    /\ err.kind = "KeyError"
    /\ err.what = "production"
    /\ <<err.p, err.t>> \in Pairs
    /\ ~IsDeclared("production", <<err.p, err.t>>)
    /\ variables # <<>>


(***************************************************************************)
(* Properties of the dashboard's rule evaluator (SpecDashboard).           *)
(***************************************************************************)
\* the context date lies outside the inclusive window of the rule
OutsideWindow(rule, context) ==
    context.date < rule.start_date \/ context.date > rule.end_date

\* the rule's condition on the context
RuleHolds(rule, context) ==
    IF rule.type = "Capacity" THEN context.demand <= context.capacity
    ELSE context.inventory >= context.safety_stock

\* the classification of (rule, context)
Classification(rule, context) ==
    IF OutsideWindow(rule, context) THEN "inactive"
    ELSE IF RuleHolds(rule, context) THEN "satisfied" ELSE "violated"

\* C14: the rule evaluator is a pure classification of (rule, context).
\* After any sequence of evaluate calls, the value the last call returned is
\* inactive exactly when the context date lies outside the inclusive window,
\* otherwise satisfied when the logic holds and violated when it does not,
\* whatever was evaluated before; it is never unknown; and the stored status
\* of every constraint is the value evaluate last returned for it (unknown
\* only before its first evaluation).
C14_PureClassification ==
    /\ last_call # None =>
          LET i == last_call[1].i
              context == last_call[1].context
              rule == SampleConstraints[i]
          IN  /\ last_returned[i] # None
              /\ last_returned[i][1] = Classification(rule, context)
              /\ last_returned[i][1] = "inactive" <=> OutsideWindow(rule, context)
              /\ last_returned[i][1] # "unknown"
              /\ event_log[Len(event_log)].status = last_returned[i][1]
    /\ \A i \in 1..Len(SampleConstraints) :
          rule_status[i] =
              IF last_returned[i] = None THEN "unknown" ELSE last_returned[i][1]

\* one constraint was evaluated twice, violated first and then, on the last
\* day of its window, satisfied
C14_Witness ==
    /\ Len(event_log) = 2
    /\ event_log[1].constraint = event_log[2].constraint
    /\ event_log[1].status = "violated"
    /\ event_log[2].status = "satisfied"
    /\ last_call # None
    /\ last_call[1].context.date = SampleConstraints[last_call[1].i].end_date


(***************************************************************************)
(* Properties of the constraint classes (SpecConstraints).                 *)
(***************************************************************************)
\* the type each class passes to Constraint.__init__
TypeOf(cls) == IF cls = "InventoryConstraint" THEN "inventory" ELSE "capacity"

\* the constructed object classifies a level as its class states
EvaluatesThreshold ==
    (made # None /\ evaluated # None) =>
        evaluated[1].result =
            IF made[1].cls = "InventoryConstraint"
            THEN evaluated[1].level >= made[1].args.threshold
            ELSE evaluated[1].level <= made[1].args.threshold

\* C15: constructing an InventoryConstraint or CapacityConstraint with a
\* parameters mapping P stores P in the parameters attribute and leaves
\* start_date holding a date or nothing, never P, with constraint_type
\* 'inventory' or 'capacity'; evaluate returns true exactly when the level
\* is >= min_inventory (inventory) or <= max_capacity (capacity).
C15_ParametersStored ==
    /\ made # None =>
          /\ made[1].obj.base.parameters = made[1].args.parameters
          /\ made[1].obj.base.start_date.kind # "dict"
          /\ made[1].obj.base.constraint_type = TypeOf(made[1].cls)
    /\ EvaluatesThreshold

\* the parts of C15 the code does as stated: the type and evaluate
C15_TypeAndEvaluate ==
    /\ made # None => made[1].obj.base.constraint_type = TypeOf(made[1].cls)
    /\ EvaluatesThreshold

=============================================================================
